---- MODULE Spec2Model ----
(***************************************************************************)
(* State-machine model of the bash language server request layer           *)
(* (server/src/server.ts, class BashServer) together with the Analyzer it  *)
(* drives.  BashServer.initialize, BashServer.register and the request     *)
(* handlers are translated from server.ts.  The Analyzer (./analyser) is   *)
(* modelled from its written contract: a store of one Document record per  *)
(* URI and synchronous query operations over it.                           *)
(*                                                                         *)
(* A script is a sequence of tokens; the position of a request is the      *)
(* 0-based index of a token.  Words are sequences of characters, so that   *)
(* String.startsWith is computed and not assumed.                          *)
(***************************************************************************)
EXTENDS Integers, Sequences, FiniteSets, TLC

\* ------------------------------------------------------------------ bounds

\* Largest cursor position (token index) a request carries.
MaxPos == 1

\* Number of onHover calls that may await the explainshell answer at once.
MaxPending == 1

\* The documents of the workspace, in the order the root scan finds them.
UriSeq == <<"a.sh", "b.sh">>

URIS == {UriSeq[i] : i \in 1..Len(UriSeq)}

Positions == 0..MaxPos

\* ------------------------------------------------------------------ words

\* JavaScript null, as returned by wordAtPoint; no word is a sequence holding
\* this element.
Null == <<"null">>

F == <<"f">>

G == <<"g">>

FI == <<"f", "i">>

FG == <<"f", "g">>

GO == <<"g", "o">>

HashF == <<"#", "f">>

\* String.prototype.startsWith(prefix) on two non-null strings.
StartsWith(s, prefix) ==
    /\ Len(prefix) <= Len(s)
    /\ \A i \in 1..Len(prefix) : s[i] = prefix[i]

\* ReservedWords.LIST, Builtins.LIST and the programs PATH can hold: one that
\* is also a builtin, one that is only a program, one whose name starts with #.
ReservedWordsLIST == <<FI>>

BuiltinsLIST == <<FG>>

PathLists == {<<FG, GO, HashF>>}

\* ---------------------------------------------------------------- scripts

Decl(w) == [kind |-> "decl", word |-> w]

Use(w) == [kind |-> "use", word |-> w]

Comment(w) == [kind |-> "comment", word |-> w]

ErrorNode == [kind |-> "error", word |-> Null]

\* The script texts a document can hold.
Texts ==
    { <<Decl(F), Use(F)>>,
      <<Decl(F), Decl(G)>>,
      <<Comment(HashF), Use(FG)>>,
      <<ErrorNode, Use(FI), Decl(G)>> }


\* --------------------------------------------------------------- Analyzer

\* A URI the store holds no Document for.
Absent == [present |-> FALSE, text |-> <<>>, index |-> <<>>, diagnostics |-> <<>>]

\* The store of a freshly constructed Analyzer.
EmptyStore == [u \in URIS |-> Absent]

Indices(text) == [i \in 1..Len(text) |-> i]

\* Location {uri, range}; the range of a token is its 0-based index.
Location(uri, i) == [uri |-> uri, range |-> i - 1]

\* The tree walk that extracts the declarations of a script, in source order.
SymbolsOf(uri, text) ==
    LET decls == SelectSeq(Indices(text), LAMBDA i : text[i].kind = "decl")
    IN  [j \in 1..Len(decls) |->
            [name |-> text[decls[j]].word, kind |-> "function",
             location |-> Location(uri, decls[j])]]

\* The syntax-error nodes of a script as diagnostics {range, message}.
DiagnosticsOf(text) ==
    LET errs == SelectSeq(Indices(text), LAMBDA i : text[i].kind = "error")
    IN  [j \in 1..Len(errs) |-> [range |-> errs[j] - 1, message |-> "parse error"]]

\* The Document record built from one version of a script.
Document(uri, text) ==
    [present |-> TRUE, text |-> text, index |-> SymbolsOf(uri, text),
     diagnostics |-> DiagnosticsOf(text)]

\* analyze(uri, text): the new store (the record of uri replaced as a whole).
analyze(st, uri, text) == [st EXCEPT ![uri] = Document(uri, text)]

\* The URIs of the store in indexing order after analyze(uri, ...).
Indexed(ord, uri) ==
    IF \E i \in 1..Len(ord) : ord[i] = uri THEN ord ELSE Append(ord, uri)

RECURSIVE Flatten(_)
Flatten(ss) == IF ss = <<>> THEN <<>> ELSE Head(ss) \o Flatten(Tail(ss))

\* wordAtPoint(uri, line, column): the text of the token at the point, or null.
wordAtPoint(st, uri, pos) ==
    IF ~st[uri].present \/ pos + 1 > Len(st[uri].text)
    THEN Null
    ELSE LET tok == st[uri].text[pos + 1]
         IN  IF tok.kind \in {"decl", "use", "comment"} THEN tok.word ELSE Null

\* The Symbol Index entries of one document whose name is name.
Named(st, uri, name) == SelectSeq(st[uri].index, LAMBDA s : s.name = name)

\* findDefinition(name): declaring locations across the workspace.
findDefinition(st, ord, name) ==
    LET syms == Flatten([k \in 1..Len(ord) |-> Named(st, ord[k], name)])
    IN  [j \in 1..Len(syms) |-> syms[j].location]

\* findOccurrences(uri, name): the mentions of name in one document.
findOccurrences(st, uri, name) ==
    IF ~st[uri].present
    THEN <<>>
    ELSE LET text == st[uri].text
             occ  == SelectSeq(Indices(text),
                         LAMBDA i : /\ text[i].kind \in {"decl", "use"}
                                    /\ text[i].word = name)
         IN  [j \in 1..Len(occ) |-> Location(uri, occ[j])]

\* findReferences(name): the mentions of name in every document.
findReferences(st, ord, name) ==
    Flatten([k \in 1..Len(ord) |-> findOccurrences(st, ord[k], name)])

\* findSymbols(uri): the Symbol Index entries of exactly one document.
findSymbols(st, uri) == st[uri].index

\* search(query): workspace-wide symbols whose name starts with query.
search(st, ord, query) ==
    Flatten([k \in 1..Len(ord) |->
        SelectSeq(st[ord[k]].index, LAMBDA s : StartsWith(s.name, query))])

\* A completion candidate {label, data: {name, type}}.
NoDocumentation == <<"none">>

CompletionItem(name, type) ==
    [label |-> name, type |-> type, documentation |-> NoDocumentation]

\* findSymbolCompletions(uri): the document's own symbols as candidates.
findSymbolCompletions(st, uri) ==
    [j \in 1..Len(st[uri].index) |-> CompletionItem(st[uri].index[j].name, "Symbol")]


\* ------------------------------------------------------------ server state

VARIABLES
    pc,          \* progress of BashServer.initialize and register
    execDone,    \* Executables.fromPath has resolved
    rootDone,    \* Analyzer.fromRoot has resolved
    executables, \* this.executables: the programs found on PATH
    store,       \* this.analyzer: URI -> Document record
    order,       \* this.analyzer: the URIs of the store in indexing order
    documents,   \* this.documents: the URIs the client has open
    lastText,    \* the script most recently delivered for each URI
    pending,     \* onHover calls awaiting the explainshell answer
    last         \* the handler that ran last, its parameters and its outcome

vars == <<pc, execDone, rootDone, executables, store, order, documents,
          lastText, pending, last>>

\* No script: the URI names no file and no open document.
NoText == <<[kind |-> "none", word |-> Null]>>

NoRequest ==
    [op |-> "none", uri |-> "", pos |-> 0, word |-> Null, arg |-> <<>>,
     status |-> "ok", result |-> <<>>]

\* What a handler hands back: a value, or a thrown error.
Reply(status, result) == [status |-> status, result |-> result]

Answer(op, uri, pos, word, arg, reply) ==
    [op |-> op, uri |-> uri, pos |-> pos, word |-> word, arg |-> arg,
     status |-> reply.status, result |-> reply.result]

Init ==
    /\ pc = "loadingParser"
    /\ execDone = FALSE
    /\ rootDone = FALSE
    /\ executables = <<>>
    /\ store = EmptyStore
    /\ order = <<>>
    /\ documents = {}
    /\ lastText = [u \in URIS |-> NoText]
    /\ pending = {}
    /\ last = NoRequest

\* -------------------------------------------------- BashServer.initialize

\* await initializeParser() resolves; Promise.all starts both scans.
ParserResolved ==
    /\ pc = "loadingParser"
    /\ pc' = "scanning"
    /\ UNCHANGED <<execDone, rootDone, executables, store, order, documents,
                   lastText, pending, last>>

\* Executables.fromPath(process.env.PATH) resolves with the PATH programs.
ExecutablesResolved ==
    /\ pc = "scanning"
    /\ ~execDone
    /\ \E list \in PathLists : executables' = list
    /\ execDone' = TRUE
    /\ UNCHANGED <<pc, rootDone, store, order, documents, lastText, pending, last>>

RECURSIVE ScanStore(_, _, _)
\* The store after analyze has run for every file of files from the k-th on.
ScanStore(st, files, k) ==
    IF k > Len(UriSeq) THEN st
    ELSE LET u == UriSeq[k]
         IN  ScanStore(IF files[u] = NoText THEN st ELSE analyze(st, u, files[u]),
                       files, k + 1)

\* A script file under the root that cannot be read.
Unreadable == <<[kind |-> "unreadable", word |-> Null]>>

\* What the root scan finds at each URI: a script, no file, or a file it
\* cannot read.
RootFiles == [URIS -> Texts \cup {NoText, Unreadable}]

\* The files the scan reads: an unreadable file is skipped.
Readable(files) == [u \in URIS |-> IF files[u] \in Texts THEN files[u] ELSE NoText]

\* The record of the root scan: the files it found.
ScanRecord(files) == Answer("fromRoot", "", 0, Null, <<files>>, Reply("ok", <<>>))

\* The files of the scan up to its first unreadable file.
UpToUnreadable(files) ==
    [u \in URIS |->
        IF \E k \in 1..Len(UriSeq) :
              /\ files[UriSeq[k]] = Unreadable
              /\ \E m \in k..Len(UriSeq) : UriSeq[m] = u
        THEN NoText
        ELSE files[u]]

\* Mutant: the scan ends at the first file it cannot read.
FromRootResolvedAborts ==
    /\ pc = "scanning"
    /\ ~rootDone
    /\ \E files \in RootFiles :
          /\ store' = ScanStore(EmptyStore, UpToUnreadable(files), 1)
          /\ order' = SelectSeq(UriSeq, LAMBDA u : UpToUnreadable(files)[u] # NoText)
          /\ lastText' = Readable(files)
          /\ last' = ScanRecord(files)
    /\ rootDone' = TRUE
    /\ UNCHANGED <<pc, execDone, executables, documents, pending>>

\* Analyzer.fromRoot resolves: every script found under the root is analyzed;
\* a file that cannot be read is skipped.
FromRootResolved ==
    /\ pc = "scanning"
    /\ ~rootDone
    /\ \E files \in RootFiles :
          /\ store' = ScanStore(EmptyStore, Readable(files), 1)
          /\ order' = SelectSeq(UriSeq, LAMBDA u : Readable(files)[u] # NoText)
          /\ lastText' = Readable(files)
          /\ last' = ScanRecord(files)
    /\ rootDone' = TRUE
    /\ UNCHANGED <<pc, execDone, executables, documents, pending>>

\* The grammar load or one of the two scans rejects: initialize rejects.
InitializeRejected ==
    /\ \/ pc = "loadingParser"
       \/ pc = "scanning" /\ ~(execDone /\ rootDone)
    /\ pc' = "rejected"
    /\ UNCHANGED <<execDone, rootDone, executables, store, order, documents,
                   lastText, pending, last>>

\* Mutant: the server is constructed as soon as the PATH scan has resolved.
ConstructEarly ==
    /\ pc = "scanning"
    /\ execDone
    /\ pc' = "constructed"
    /\ UNCHANGED <<execDone, rootDone, executables, store, order, documents,
                   lastText, pending, last>>

\* Mutant: the then-callback also runs when the grammar load or a scan has
\* rejected (the results are awaited with allSettled).
ConstructSettled ==
    /\ \/ pc = "rejected"
       \/ pc = "scanning" /\ execDone /\ rootDone
    /\ pc' = "constructed"
    /\ UNCHANGED <<execDone, rootDone, executables, store, order, documents,
                   lastText, pending, last>>

\* The .then of Promise.all: new BashServer(connection, executables, analyzer).
Construct ==
    /\ pc = "scanning"
    /\ execDone /\ rootDone
    /\ pc' = "constructed"
    /\ UNCHANGED <<execDone, rootDone, executables, store, order, documents,
                   lastText, pending, last>>

\* server.register(connection): the handlers are installed.
Register ==
    /\ pc = "constructed"
    /\ pc' = "registered"
    /\ UNCHANGED <<execDone, rootDone, executables, store, order, documents,
                   lastText, pending, last>>


\* ------------------------------------------------- document-change events

\* The event record of a content change.
ChangeRecord(uri, text, highlight, diagnostics) ==
    Answer("didChangeContent", uri, 0, Null, <<text, highlight, lastText[uri]>>,
           Reply("ok", IF highlight
                       THEN <<[uri |-> uri, diagnostics |-> diagnostics]>>
                       ELSE <<>>))

\* Mutant: a document already in the store is not analyzed again.
OnDidChangeContentOnce(uri, text, highlight) ==
    /\ pc = "registered"
    /\ documents' = documents \cup {uri}
    /\ store' = IF store[uri].present THEN store ELSE analyze(store, uri, text)
    /\ order' = Indexed(order, uri)
    /\ lastText' = [lastText EXCEPT ![uri] = text]
    /\ last' = ChangeRecord(uri, text, highlight, store'[uri].diagnostics)
    /\ UNCHANGED <<pc, execDone, rootDone, executables, pending>>

\* Mutant: the text is analyzed under the URI of another document.
OnDidChangeContentWrongUri(uri, text, highlight) ==
    /\ pc = "registered"
    /\ documents' = documents \cup {uri}
    /\ store' = analyze(analyze(store, uri, text), UriSeq[1], text)
    /\ order' = Indexed(Indexed(order, uri), UriSeq[1])
    /\ lastText' = [lastText EXCEPT ![uri] = text]
    /\ last' = ChangeRecord(uri, text, highlight, store'[uri].diagnostics)
    /\ UNCHANGED <<pc, execDone, rootDone, executables, pending>>

\* Mutant: the text of the record is replaced in this turn, its index and
\* diagnostics are left as they were.
OnDidChangeContentTorn(uri, text, highlight) ==
    /\ pc = "registered"
    /\ documents' = documents \cup {uri}
    /\ store' = [store EXCEPT ![uri].present = TRUE, ![uri].text = text]
    /\ order' = Indexed(order, uri)
    /\ lastText' = [lastText EXCEPT ![uri] = text]
    /\ last' = ChangeRecord(uri, text, highlight, DiagnosticsOf(text))
    /\ UNCHANGED <<pc, execDone, rootDone, executables, pending>>

\* Mutant: the new symbols and diagnostics are added to those of the record.
OnDidChangeContentAppend(uri, text, highlight) ==
    /\ pc = "registered"
    /\ documents' = documents \cup {uri}
    /\ store' = [store EXCEPT ![uri] =
                    [present |-> TRUE, text |-> text,
                     index |-> store[uri].index \o SymbolsOf(uri, text),
                     diagnostics |-> store[uri].diagnostics \o DiagnosticsOf(text)]]
    /\ order' = Indexed(order, uri)
    /\ lastText' = [lastText EXCEPT ![uri] = text]
    /\ last' = ChangeRecord(uri, text, highlight, store'[uri].diagnostics)
    /\ UNCHANGED <<pc, execDone, rootDone, executables, pending>>

\* Mutant: a syntax error in the delivered text, or in any stored document,
\* makes analyze throw and leaves the store as it was.
OnDidChangeContentThrows(uri, text, highlight) ==
    /\ pc = "registered"
    /\ documents' = documents \cup {uri}
    /\ lastText' = [lastText EXCEPT ![uri] = text]
    /\ IF DiagnosticsOf(text) # <<>> \/ \E u \in URIS : store[u].diagnostics # <<>>
       THEN /\ UNCHANGED <<store, order>>
            /\ last' = Answer("didChangeContent", uri, 0, Null,
                              <<text, highlight, lastText[uri]>>,
                              Reply("error", <<>>))
       ELSE /\ store' = analyze(store, uri, text)
            /\ order' = Indexed(order, uri)
            /\ last' = ChangeRecord(uri, text, highlight, store'[uri].diagnostics)
    /\ UNCHANGED <<pc, execDone, rootDone, executables, pending>>

\* Mutant: the document is analyzed only when its diagnostics will be sent.
OnDidChangeContentGated(uri, text, highlight) ==
    /\ pc = "registered"
    /\ documents' = documents \cup {uri}
    /\ store' = IF highlight THEN analyze(store, uri, text) ELSE store
    /\ order' = IF highlight THEN Indexed(order, uri) ELSE order
    /\ lastText' = [lastText EXCEPT ![uri] = text]
    /\ last' = ChangeRecord(uri, text, highlight, DiagnosticsOf(text))
    /\ UNCHANGED <<pc, execDone, rootDone, executables, pending>>

\* The onDidChangeContent callback: emitted when a document is first opened
\* and whenever its content changes (full-document sync).  The record of the
\* event keeps the delivered text, the configuration read and the text the
\* URI had before.
OnDidChangeContent(uri, text, highlight) ==
    /\ pc = "registered"
    /\ documents' = documents \cup {uri}
    /\ store' = analyze(store, uri, text)
    /\ order' = Indexed(order, uri)
    /\ lastText' = [lastText EXCEPT ![uri] = text]
    /\ last' = ChangeRecord(uri, text, highlight, store'[uri].diagnostics)
    /\ UNCHANGED <<pc, execDone, rootDone, executables, pending>>

\* Mutant: a close callback that drops the record of the document.
OnDidCloseRemoves(uri) ==
    /\ pc = "registered"
    /\ uri \in documents
    /\ documents' = documents \ {uri}
    /\ store' = [store EXCEPT ![uri] = Absent]
    /\ order' = SelectSeq(order, LAMBDA u : u # uri)
    /\ last' = Answer("didClose", uri, 0, Null, <<>>, Reply("ok", <<>>))
    /\ UNCHANGED <<pc, execDone, rootDone, executables, lastText, pending>>

\* The client closes a document: this.documents drops it; register installs
\* no callback for the event.
OnDidClose(uri) ==
    /\ pc = "registered"
    /\ uri \in documents
    /\ documents' = documents \ {uri}
    /\ last' = Answer("didClose", uri, 0, Null, <<>>, Reply("ok", <<>>))
    /\ UNCHANGED <<pc, execDone, rootDone, executables, store, order, lastText,
                   pending>>

\* ------------------------------------------------------- request handlers

\* JavaScript truthiness of word: neither null nor the empty string.
Truthy(word) == word # Null /\ word # <<>>

getWordAtPoint(uri, pos) == wordAtPoint(store, uri, pos)

\* Mutant: the definition request answers with every mention of the word.
onDefinitionMentions(uri, pos) ==
    Reply("ok", findReferences(store, order, getWordAtPoint(uri, pos)))

onDefinition(uri, pos) ==
    Reply("ok", findDefinition(store, order, getWordAtPoint(uri, pos)))

onDocumentSymbol(uri) == Reply("ok", findSymbols(store, uri))

onWorkspaceSymbol(query) == Reply("ok", search(store, order, query))

onDocumentHighlight(uri, pos) ==
    LET occ == findOccurrences(store, uri, getWordAtPoint(uri, pos))
    IN  Reply("ok", [j \in 1..Len(occ) |-> [range |-> occ[j].range]])

\* Mutant: the references request looks in the requesting document only.
onReferencesLocal(uri, pos) ==
    Reply("ok", findOccurrences(store, uri, getWordAtPoint(uri, pos)))

onReferences(uri, pos) ==
    Reply("ok", findReferences(store, order, getWordAtPoint(uri, pos)))

reservedWordsCompletions ==
    [j \in 1..Len(ReservedWordsLIST) |->
        CompletionItem(ReservedWordsLIST[j], "ReservedWord")]

programCompletions ==
    [j \in 1..Len(executables) |-> CompletionItem(executables[j], "Executable")]

builtinsCompletions ==
    [j \in 1..Len(BuiltinsLIST) |-> CompletionItem(BuiltinsLIST[j], "Builtin")]

\* Mutant: the symbol candidates are those of every stored document.
allCompletionsWorkspace(uri) ==
    reservedWordsCompletions
        \o Flatten([j \in 1..Len(order) |-> findSymbolCompletions(store, order[j])])
        \o programCompletions \o builtinsCompletions

allCompletions(uri) ==
    reservedWordsCompletions \o findSymbolCompletions(store, uri)
        \o programCompletions \o builtinsCompletions

\* A TypeError thrown by the handler.
TypeError == Reply("error", <<>>)

\* Mutant: word.startsWith is called without the test that word is set.
onCompletionUnguarded(uri, pos) ==
    LET word == getWordAtPoint(uri, pos)
    IN  IF word = Null
        THEN TypeError
        ELSE IF StartsWith(word, <<"#">>)
             THEN Reply("ok", <<>>)
             ELSE Reply("ok", SelectSeq(allCompletions(uri),
                                  LAMBDA item : StartsWith(item.label, word)))

\* Mutant: no test for a word inside a comment.
onCompletionNoComment(uri, pos) ==
    LET word == getWordAtPoint(uri, pos)
    IN  IF Truthy(word)
        THEN Reply("ok", SelectSeq(allCompletions(uri),
                             LAMBDA item : StartsWith(item.label, word)))
        ELSE Reply("ok", allCompletions(uri))

\* Mutant: the prefix test is made the wrong way round.
onCompletionSwapped(uri, pos) ==
    LET word == getWordAtPoint(uri, pos)
    IN  IF Truthy(word)
        THEN IF StartsWith(word, <<"#">>)
             THEN Reply("ok", <<>>)
             ELSE Reply("ok", SelectSeq(allCompletions(uri),
                                  LAMBDA item : StartsWith(word, item.label)))
        ELSE Reply("ok", allCompletions(uri))

onCompletion(uri, pos) ==
    LET word == getWordAtPoint(uri, pos)
    IN  IF Truthy(word)
        THEN IF StartsWith(word, <<"#">>)
             THEN Reply("ok", <<>>)
             ELSE Reply("ok", SelectSeq(allCompletions(uri),
                                  LAMBDA item : StartsWith(item.label, word)))
        ELSE Reply("ok", allCompletions(uri))

OnDefinition(uri, pos) ==
    /\ pc = "registered"
    /\ last' = Answer("definition", uri, pos, getWordAtPoint(uri, pos), <<>>,
                      onDefinition(uri, pos))
    /\ UNCHANGED <<pc, execDone, rootDone, executables, store, order, documents,
                   lastText, pending>>

OnDocumentSymbol(uri) ==
    /\ pc = "registered"
    /\ last' = Answer("documentSymbol", uri, 0, Null, <<>>, onDocumentSymbol(uri))
    /\ UNCHANGED <<pc, execDone, rootDone, executables, store, order, documents,
                   lastText, pending>>

OnWorkspaceSymbol(query) ==
    /\ pc = "registered"
    /\ last' = Answer("workspaceSymbol", "", 0, query, <<>>, onWorkspaceSymbol(query))
    /\ UNCHANGED <<pc, execDone, rootDone, executables, store, order, documents,
                   lastText, pending>>

OnDocumentHighlight(uri, pos) ==
    /\ pc = "registered"
    /\ last' = Answer("documentHighlight", uri, pos, getWordAtPoint(uri, pos), <<>>,
                      onDocumentHighlight(uri, pos))
    /\ UNCHANGED <<pc, execDone, rootDone, executables, store, order, documents,
                   lastText, pending>>

OnReferences(uri, pos) ==
    /\ pc = "registered"
    /\ last' = Answer("references", uri, pos, getWordAtPoint(uri, pos), <<>>,
                      onReferences(uri, pos))
    /\ UNCHANGED <<pc, execDone, rootDone, executables, store, order, documents,
                   lastText, pending>>

\* Mutant: a completion request for a URI that is not stored enters an empty
\* record for it.
OnCompletionEnters(uri, pos) ==
    /\ pc = "registered"
    /\ last' = Answer("completion", uri, pos, getWordAtPoint(uri, pos), <<>>,
                      onCompletion(uri, pos))
    /\ store' = IF store[uri].present THEN store ELSE analyze(store, uri, <<>>)
    /\ order' = Indexed(order, uri)
    /\ UNCHANGED <<pc, execDone, rootDone, executables, documents, lastText, pending>>

OnCompletion(uri, pos) ==
    /\ pc = "registered"
    /\ last' = Answer("completion", uri, pos, getWordAtPoint(uri, pos), <<>>,
                      onCompletion(uri, pos))
    /\ UNCHANGED <<pc, execDone, rootDone, executables, store, order, documents,
                   lastText, pending>>


\* The markdown block built from a documentation text.
Markdown(doc) == <<"man", doc>>

\* The completion items a client can send back for resolution.
ResolvableItems ==
    { CompletionItem(GO, "Executable"), CompletionItem(FG, "Builtin"),
      CompletionItem(FI, "ReservedWord"), CompletionItem(F, "Symbol") }

\* Mutant: no catch around the documentation lookups.
onCompletionResolveNoCatch(item, found) ==
    IF item.type \in {"Executable", "Builtin", "ReservedWord"}
    THEN IF found
         THEN Reply("ok", [item EXCEPT !.documentation = Markdown(item.type)])
         ELSE Reply("error", <<>>)
    ELSE Reply("ok", item)

\* onCompletionResolve; found tells whether the documentation lookup of the
\* item's collaborator resolves (TRUE) or rejects (FALSE).
onCompletionResolve(item, found) ==
    IF item.type \in {"Executable", "Builtin", "ReservedWord"}
    THEN IF found
         THEN Reply("ok", [item EXCEPT !.documentation = Markdown(item.type)])
         ELSE Reply("ok", item)
    ELSE Reply("ok", item)

OnCompletionResolve(item, found) ==
    /\ pc = "registered"
    /\ last' = Answer("completionResolve", "", 0, item.label, <<item, found>>,
                      onCompletionResolve(item, found))
    /\ UNCHANGED <<pc, execDone, rootDone, executables, store, order, documents,
                   lastText, pending>>

\* ------------------------------------------------------------------ hover

HoverItem(source, word) == [source |-> source, word |-> word]

isBuiltin(word) == \E j \in 1..Len(BuiltinsLIST) : BuiltinsLIST[j] = word

isReservedWord(word) == \E j \in 1..Len(ReservedWordsLIST) : ReservedWordsLIST[j] = word

isExecutableOnPATH(word) == \E j \in 1..Len(executables) : executables[j] = word

\* Mutant: the executables on PATH are asked before the builtins.
hoverFallbackPathFirst(word) ==
    IF isExecutableOnPATH(word) THEN Reply("ok", HoverItem("executable", word))
    ELSE IF isBuiltin(word) THEN Reply("ok", HoverItem("builtin", word))
    ELSE IF isReservedWord(word) THEN Reply("ok", HoverItem("reservedWord", word))
    ELSE Reply("ok", HoverItem("null", Null))

\* The part of onHover after the explainshell branch: builtin, then reserved
\* word, then PATH executable, else null.
hoverFallback(word) ==
    IF isBuiltin(word) THEN Reply("ok", HoverItem("builtin", word))
    ELSE IF isReservedWord(word) THEN Reply("ok", HoverItem("reservedWord", word))
    ELSE IF isExecutableOnPATH(word) THEN Reply("ok", HoverItem("executable", word))
    ELSE Reply("ok", HoverItem("null", Null))

\* onHover up to its first suspension: with an explainshell endpoint
\* configured it awaits the answer, otherwise it replies in the same turn.
OnHover(uri, pos, endpoint) ==
    /\ pc = "registered"
    /\ LET word == getWordAtPoint(uri, pos)
       IN  IF endpoint
           THEN /\ Cardinality(pending) < MaxPending
                /\ pending' = pending \cup {[uri |-> uri, pos |-> pos, word |-> word]}
                /\ UNCHANGED last
           ELSE /\ last' = Answer("hover", uri, pos, word, <<endpoint>>,
                                  hoverFallback(word))
                /\ UNCHANGED pending
    /\ UNCHANGED <<pc, execDone, rootDone, executables, store, order, documents,
                   lastText>>

\* Mutant: the resumed call looks the word up again in the store.
OnHoverResumeRereads(h, status) ==
    /\ h \in pending
    /\ pending' = pending \ {h}
    /\ last' = Answer("hover", "", 0, wordAtPoint(store, h.uri, h.pos),
                  <<TRUE, status>>,
                  IF status = "error"
                  THEN hoverFallback(wordAtPoint(store, h.uri, h.pos))
                  ELSE Reply("ok", HoverItem("explainshell",
                                             wordAtPoint(store, h.uri, h.pos))))
    /\ UNCHANGED <<pc, execDone, rootDone, executables, store, order, documents,
                   lastText>>

\* onHover resumed with the explainshell response; the reply is recorded with
\* the word the suspended call holds.
OnHoverResume(h, status) ==
    /\ h \in pending
    /\ pending' = pending \ {h}
    /\ last' = Answer("hover", "", 0, h.word, <<TRUE, status>>,
                  IF status = "error"
                  THEN hoverFallback(h.word)
                  ELSE Reply("ok", HoverItem("explainshell", h.word)))
    /\ UNCHANGED <<pc, execDone, rootDone, executables, store, order, documents,
                   lastText>>

\* ---------------------------------------------------------- specification

Queries == {<<>>, F, G}

\* BashServer.initialize followed by register.
Startup ==
    \/ ParserResolved
    \/ ExecutablesResolved
    \/ FromRootResolved
    \/ InitializeRejected
    \/ Construct
    \/ Register

\* The document events the client sends.
DocumentEvent ==
    \/ \E uri \in URIS, text \in Texts, highlight \in BOOLEAN :
           OnDidChangeContent(uri, text, highlight)
    \/ \E uri \in URIS : OnDidClose(uri)

\* The requests answered within one turn of the event loop.
Request ==
    \/ \E uri \in URIS, pos \in Positions : OnDefinition(uri, pos)
    \/ \E uri \in URIS : OnDocumentSymbol(uri)
    \/ \E query \in Queries : OnWorkspaceSymbol(query)
    \/ \E uri \in URIS, pos \in Positions : OnDocumentHighlight(uri, pos)
    \/ \E uri \in URIS, pos \in Positions : OnReferences(uri, pos)
    \/ \E uri \in URIS, pos \in Positions : OnCompletion(uri, pos)
    \/ \E item \in ResolvableItems, found \in BOOLEAN : OnCompletionResolve(item, found)

\* The server with no explainshell endpoint configured (the default): every
\* handler runs to completion within its turn.
Next ==
    \/ Startup
    \/ DocumentEvent
    \/ Request
    \/ \E uri \in URIS, pos \in Positions : OnHover(uri, pos, FALSE)

Spec == Init /\ [][Next]_vars

\* The server with an explainshell endpoint that may be configured: onHover
\* suspends, and document events are handled while it waits.
NextExplainshell ==
    \/ Startup
    \/ DocumentEvent
    \/ \E uri \in URIS, pos \in Positions, endpoint \in BOOLEAN :
           OnHover(uri, pos, endpoint)
    \/ \E h \in pending, status \in {"success", "error"} : OnHoverResume(h, status)

SpecExplainshell == Init /\ [][NextExplainshell]_vars


\* ------------------------------------------------------------- properties

\* The script most recently delivered for uri declares name.
DeclaredIn(uri, name) ==
    /\ lastText[uri] # NoText
    /\ \E i \in 1..Len(lastText[uri]) :
          lastText[uri][i].kind = "decl" /\ lastText[uri][i].word = name

\* sym is a declaration of the script text of document uri.
DerivableFrom(sym, uri, text) ==
    \E i \in 1..Len(text) :
        /\ text[i].kind = "decl"
        /\ text[i].word = sym.name
        /\ sym.location = [uri |-> uri, range |-> i - 1]

\* C1 (freshness): once a content change has run analyze(uri, textV2), the
\* symbols onDocumentSymbol serves for uri are all declarations of textV2: right
\* after the change, and in every later document-symbol reply, where textV2 is
\* the script most recently delivered for the URI.
C1_Freshness ==
    /\ last.op = "didChangeContent" =>
          \A j \in 1..Len(onDocumentSymbol(last.uri).result) :
              DerivableFrom(onDocumentSymbol(last.uri).result[j], last.uri, last.arg[1])
    /\ (last.op = "documentSymbol" /\ lastText[last.uri] # NoText) =>
          \A j \in 1..Len(last.result) :
              DerivableFrom(last.result[j], last.uri, lastText[last.uri])

\* A change replaced a script declaring f and g by one declaring only f, and
\* the document symbols are now the single declaration of f.
C1_Witness ==
    /\ last.op = "didChangeContent"
    /\ last.arg[3] = <<Decl(F), Decl(G)>>
    /\ last.arg[1] = <<Decl(F), Use(F)>>
    /\ Len(onDocumentSymbol(last.uri).result) = 1

\* C2 (isolation): a content change of document A leaves the stored record
\* (text, symbol index, diagnostics) of every other document B as it was.
C2_Isolation ==
    [][\A a \in URIS, text \in Texts, highlight \in BOOLEAN :
          OnDidChangeContent(a, text, highlight) =>
              \A b \in URIS \ {a} : store'[b] = store[b]]_vars

\* A change of one document was handled while the other document is stored
\* with a different script.
C2_Witness ==
    /\ last.op = "didChangeContent"
    /\ \E b \in URIS \ {last.uri} :
          store[b].present /\ store[b].text # last.arg[1]

\* Some handler has run.
HandlerRan == last.op \notin {"none", "fromRoot"} \/ pending # {} \/ documents # {}

\* C3 (initialization ordering): the server is constructed only after the PATH
\* scan and the workspace scan have both resolved, the scans start only after
\* the grammar has loaded, and no handler runs before the server is registered.
C3_InitializationOrdering ==
    /\ pc \in {"constructed", "registered"} => execDone /\ rootDone
    /\ (execDone \/ rootDone) => pc # "loadingParser"
    /\ HandlerRan => pc = "registered" /\ execDone /\ rootDone

\* A definition request is answered from the workspace scan alone: no document
\* has been opened, and the reply is not empty.
C3_Witness ==
    /\ last.op = "definition"
    /\ documents = {}
    /\ Len(last.result) > 0

\* C4 (atomic replacement): in every state, also while an onHover call is
\* suspended, the record stored for a URI is the complete record of one
\* version of the script, and that version is the one most recently delivered.
C4_AtomicReplacement ==
    \A u \in URIS :
        \/ store[u] = Absent /\ lastText[u] = NoText
        \/ /\ lastText[u] \in Texts
           /\ store[u] = [present |-> TRUE, text |-> lastText[u],
                          index |-> SymbolsOf(u, lastText[u]),
                          diagnostics |-> DiagnosticsOf(lastText[u])]

\* An onHover call is suspended and a content change of its document has been
\* handled meanwhile: the word at its position is no longer the one it holds.
C4_Witness ==
    \E h \in pending :
        /\ h.uri \in documents
        /\ wordAtPoint(store, h.uri, h.pos) # h.word

\* C5 as stated: after a document is closed its record is gone from the store.
C5_RemovedOnClose == last.op = "didClose" => ~store[last.uri].present

\* C5 (document lifecycle), amended: a URI goes from absent to indexed (root
\* scan or open) and stays indexed; closing a document changes neither the
\* store nor the indexing order.
C5_Lifecycle ==
    [][\A u \in URIS :
          /\ store[u].present => store'[u].present
          /\ OnDidClose(u) => store' = store /\ order' = order]_vars

\* A document was opened and closed, and its record is still in the store.
C5_Witness ==
    /\ last.op = "didClose"
    /\ last.uri \notin documents
    /\ store[last.uri].present

DeclLocations(name) ==
    UNION { { [uri |-> u, range |-> i - 1] :
                i \in { k \in 1..Len(lastText[u]) :
                           /\ lastText[u][k].kind = "decl"
                           /\ lastText[u][k].word = name } } :
            u \in { v \in URIS : lastText[v] # NoText } }

\* C7 (workspace symbol table): the reply to a definition request is exactly
\* the declarations of the word in the current scripts of the stored documents,
\* each once.
C7_DefinitionConsistency ==
    last.op = "definition" =>
        /\ {last.result[j] : j \in 1..Len(last.result)} = DeclLocations(last.word)
        /\ Len(last.result) = Cardinality(DeclLocations(last.word))

\* A definition reply names declarations in two documents, one of them opened
\* by the client.
C7_Witness ==
    /\ last.op = "definition"
    /\ documents # {}
    /\ \A u \in URIS : \E j \in 1..Len(last.result) : last.result[j].uri = u

QueryOps ==
    {"definition", "documentSymbol", "workspaceSymbol", "documentHighlight",
     "references", "completion", "completionResolve", "hover"}

\* C8 (miss behaviour): no request ends in an error; a definition request for a
\* word no document declares, the null word included, answers with the empty
\* sequence, and so do references and highlights of the null word and the
\* symbols of a URI that is not stored.
C8_MissBehaviour ==
    /\ last.op \in QueryOps => last.status = "ok"
    /\ (last.op = "definition" /\ \A u \in URIS : ~DeclaredIn(u, last.word)) =>
          last.result = <<>>
    /\ (last.op \in {"references", "documentHighlight"} /\ last.word = Null) =>
          last.result = <<>>
    /\ (last.op = "documentSymbol" /\ lastText[last.uri] = NoText) =>
          last.result = <<>>

\* A definition request on a URI that is not stored: the word is null and the
\* reply is empty.
C8_Witness ==
    /\ last.op = "definition"
    /\ lastText[last.uri] = NoText
    /\ last.word = Null
    /\ last.result = <<>>

\* The token of the current script of uri at pos is a comment.
CommentAt(uri, pos) ==
    /\ lastText[uri] # NoText
    /\ pos + 1 <= Len(lastText[uri])
    /\ lastText[uri][pos + 1].kind = "comment"

\* C9 (comment suppression): on a comment token the word of a completion
\* request is the text of the token, and whenever the word starts with # the
\* completion list is empty.
C9_CommentSuppression ==
    last.op = "completion" =>
        /\ CommentAt(last.uri, last.pos) =>
              last.word = lastText[last.uri][last.pos + 1].word
        /\ (last.word # Null /\ last.word[1] = "#") => last.result = <<>>

\* A completion request inside a comment whose word is the name of a program on
\* PATH, answered with the empty list.
C9_Witness ==
    /\ last.op = "completion"
    /\ CommentAt(last.uri, last.pos)
    /\ isExecutableOnPATH(last.word)
    /\ last.result = <<>>

\* C10 (workspace aggregation): the reply to a references request holds a
\* location from every stored document that declares the word.
C10_ReferencesAggregation ==
    last.op = "references" =>
        \A u \in URIS :
            DeclaredIn(u, last.word) =>
                \E j \in 1..Len(last.result) : last.result[j].uri = u

\* A references request for a word that both documents declare.
C10_Witness ==
    /\ last.op = "references"
    /\ \A u \in URIS : DeclaredIn(u, last.word)
    /\ \A u \in URIS : \E j \in 1..Len(last.result) : last.result[j].uri = u

\* C11 (initialization failure): once the grammar load or one of the two scans
\* has rejected, initialize stays rejected: no server is constructed or
\* registered afterwards, and no handler has run or ever runs.
C11_RejectionIsFatal ==
    [][/\ pc = "rejected" => pc' = "rejected"
       /\ pc' = "rejected" => (last'.op \in {"none", "fromRoot"}
                                /\ documents' = {} /\ pending' = {})]_vars

\* The PATH scan has resolved and the workspace scan has rejected: initialize
\* is rejected and nothing has been served.
C11_Witness ==
    /\ pc = "rejected"
    /\ execDone
    /\ ~rootDone
    /\ ~HandlerRan

\* C12 (scan failure isolation): when the workspace scan has resolved, every
\* file it could read is stored with the complete record of its script, every
\* file it could not read (and every URI without a file) is absent, and the
\* scan has resolved all the same.
C12_ScanIsolation ==
    last.op = "fromRoot" =>
        /\ rootDone
        /\ \A u \in URIS :
              IF last.arg[1][u] \in Texts
              THEN /\ store[u].present
                   /\ store[u].text = last.arg[1][u]
                   /\ \A j \in 1..Len(store[u].index) :
                         DerivableFrom(store[u].index[j], u, last.arg[1][u])
                   /\ \E j \in 1..Len(order) : order[j] = u
              ELSE ~store[u].present

\* The first file of the scan could not be read, the second was stored, and
\* the server has been constructed and registered.
C12_Witness ==
    /\ last.op = "fromRoot"
    /\ pc = "registered"
    /\ last.arg[1][UriSeq[1]] = Unreadable
    /\ store[UriSeq[2]].present
    /\ ~store[UriSeq[1]].present

\* C13 (queries are pure reads): a step that answers hover, definition,
\* documentSymbol, workspaceSymbol, documentHighlight, references, completion
\* or completionResolve leaves the store as it was; the store changes only in
\* a step that runs analyze (a content change, or the scan of the root).
C13_QueriesArePureReads ==
    [][/\ last'.op \in QueryOps => (store' = store /\ order' = order)
       /\ (store' # store \/ order' # order) =>
              last'.op \in {"didChangeContent", "fromRoot"}]_vars

\* A completion request was answered for a URI that is not stored while
\* another document is, and the URI is still not stored.
C13_Witness ==
    /\ last.op = "completion"
    /\ ~store[last.uri].present
    /\ \E u \in URIS : store[u].present
    /\ Len(last.result) > 0

\* The number of tokens of the given kind in a script.
CountKind(text, kind) ==
    Cardinality({i \in 1..Len(text) : text[i].kind = kind})

\* Some stored document has syntax errors.
SomeMalformed == \E u \in URIS : store[u].present /\ store[u].diagnostics # <<>>

\* C14 (parse errors are non-fatal and local): a content change that delivers
\* a malformed script does not fail; the record of its URI is replaced by the
\* best-effort result (the delivered text, all its declarations, one
\* diagnostic for each error node), which is what the change returns.  While
\* any stored document is malformed, a content change of any document still
\* succeeds and replaces its record, and every request is still answered: the
\* symbols of a document are all the declarations of its latest script.
C14_ParseErrorsAreLocal ==
    /\ last.op = "didChangeContent" =>
          /\ last.status = "ok"
          /\ store[last.uri].present
          /\ store[last.uri].text = last.arg[1]
          /\ Len(store[last.uri].index) = CountKind(last.arg[1], "decl")
          /\ Len(store[last.uri].diagnostics) = CountKind(last.arg[1], "error")
          /\ last.arg[2] => last.result[1].diagnostics = store[last.uri].diagnostics
    /\ SomeMalformed =>
          /\ last.op \in QueryOps => last.status = "ok"
          /\ (last.op = "documentSymbol" /\ lastText[last.uri] # NoText) =>
                Len(last.result) = CountKind(lastText[last.uri], "decl")

\* A document the client opened is stored with a syntax error and with the
\* declaration that follows the error; after that a well-formed script was
\* delivered for another document and its declarations are stored.
C14_Witness ==
    /\ last.op = "didChangeContent"
    /\ last.status = "ok"
    /\ store[last.uri].diagnostics = <<>>
    /\ Len(store[last.uri].index) = 2
    /\ \E u \in documents \ {last.uri} :
          /\ store[u].diagnostics # <<>>
          /\ store[u].index # <<>>

\* The labels of the symbol candidates of a completion list.
SymbolLabels(items) ==
    {items[j].label : j \in {k \in 1..Len(items) : items[k].type = "Symbol"}}

\* C15 (completion symbol scope): every symbol candidate of a completion reply
\* for document U is declared in the latest script of U; a name declared only
\* in another stored document is not among them.
C15_CompletionSymbolScope ==
    last.op = "completion" =>
        \A name \in SymbolLabels(last.result) : DeclaredIn(last.uri, name)

\* A completion request with no word at the cursor was answered with the
\* requesting document's own symbol while another stored document declares a
\* name the requesting document does not, and that name is not offered.
C15_Witness ==
    /\ last.op = "completion"
    /\ last.word = Null
    /\ G \in SymbolLabels(last.result)
    /\ \E u \in URIS \ {last.uri} :
          /\ store[u].present
          /\ DeclaredIn(u, F)
          /\ ~DeclaredIn(last.uri, F)
    /\ F \notin SymbolLabels(last.result)

\* The declared names of a script, in the order of their declaration.
DeclaredNames(text) ==
    IF text = NoText
    THEN <<>>
    ELSE LET decls == SelectSeq(text, LAMBDA tok : tok.kind = "decl")
         IN  [j \in 1..Len(decls) |-> decls[j].word]

\* The candidate list of a completion request on uri: reserved words, then the
\* symbols of the document, then the executables on PATH, then the builtins.
Candidates(uri) ==
    [j \in 1..Len(ReservedWordsLIST) |->
        [label |-> ReservedWordsLIST[j], type |-> "ReservedWord",
         documentation |-> NoDocumentation]]
    \o [j \in 1..Len(DeclaredNames(lastText[uri])) |->
        [label |-> DeclaredNames(lastText[uri])[j], type |-> "Symbol",
         documentation |-> NoDocumentation]]
    \o [j \in 1..Len(executables) |->
        [label |-> executables[j], type |-> "Executable",
         documentation |-> NoDocumentation]]
    \o [j \in 1..Len(BuiltinsLIST) |->
        [label |-> BuiltinsLIST[j], type |-> "Builtin",
         documentation |-> NoDocumentation]]

\* sub holds exactly the elements of full that satisfy Keep, in the order they
\* have in full (the elements of full are pairwise different).
IsFilterOf(sub, full, Keep(_)) ==
    /\ \A j \in 1..Len(sub) :
          Keep(sub[j]) /\ \E k \in 1..Len(full) : full[k] = sub[j]
    /\ \A k \in 1..Len(full) :
          Keep(full[k]) => \E j \in 1..Len(sub) : sub[j] = full[k]
    /\ \A i, j \in 1..Len(sub) :
          i < j => \E a, b \in 1..Len(full) :
                      a < b /\ full[a] = sub[i] /\ full[b] = sub[j]

\* C16 (completion filtering): a completion reply with no word at the cursor
\* is the whole candidate list (reserved words, document symbols, PATH
\* executables, builtins, in this order); with a word that does not start with
\* # it is exactly the candidates whose label starts with the word, in the
\* order of the candidate list and with nothing added.
C16_CompletionFiltering ==
    last.op = "completion" =>
        /\ last.word = Null => last.result = Candidates(last.uri)
        /\ (last.word # Null /\ Head(last.word) # "#") =>
              IsFilterOf(last.result, Candidates(last.uri),
                         LAMBDA item : StartsWith(item.label, last.word))

\* A completion request on the word f was answered with a reserved word, a
\* symbol, an executable and a builtin, and some candidates were left out.
C16_Witness ==
    /\ last.op = "completion"
    /\ last.word = F
    /\ {last.result[j].type : j \in 1..Len(last.result)}
          = {"ReservedWord", "Symbol", "Executable", "Builtin"}
    /\ Len(last.result) < Len(Candidates(last.uri))

\* C17 (diagnostics publication): a content change analyzes the delivered
\* text under the URI of the changed document, whatever the configuration;
\* diagnostics are sent if and only if the highlight setting is on, and the
\* notification sent carries that URI and the diagnostics of the record the
\* analysis has just stored.
C17_DiagnosticsPublication ==
    [][last'.op = "didChangeContent" =>
          /\ store' = analyze(store, last'.uri, last'.arg[1])
          /\ (last'.result # <<>>) <=> last'.arg[2]
          /\ last'.arg[2] =>
                last'.result = <<[uri |-> last'.uri,
                                  diagnostics |-> store'[last'.uri].diagnostics]>>]_vars

\* With the highlight setting off a new, malformed version of an open
\* document was delivered: it is analyzed and stored with its diagnostics,
\* and nothing was sent.
C17_Witness ==
    /\ last.op = "didChangeContent"
    /\ ~last.arg[2]
    /\ last.result = <<>>
    /\ last.arg[3] \notin {NoText, last.arg[1]}
    /\ store[last.uri].text = last.arg[1]
    /\ store[last.uri].diagnostics # <<>>

\* C18 (completion resolve never fails): every completionResolve request is
\* answered with a completion item.  For a symbol, and for an executable,
\* builtin or reserved word whose documentation lookup fails, the answer is
\* the item as it was sent; when the lookup succeeds the answer is the item
\* with a markdown documentation and nothing else changed.
C18_ResolveNeverFails ==
    last.op = "completionResolve" =>
        LET item == last.arg[1]
            found == last.arg[2]
        IN  /\ last.status = "ok"
            /\ IF item.type \in {"Executable", "Builtin", "ReservedWord"} /\ found
               THEN /\ DOMAIN last.result = DOMAIN item
                    /\ last.result.label = item.label
                    /\ last.result.type = item.type
                    /\ last.result.documentation # item.documentation
                    /\ Head(last.result.documentation) = "man"
               ELSE last.result = item

\* The documentation lookup of an executable failed and the request was
\* answered with the item as it was sent.
C18_Witness ==
    /\ last.op = "completionResolve"
    /\ last.arg[1].type = "Executable"
    /\ ~last.arg[2]
    /\ last.status = "ok"
    /\ last.result = last.arg[1]

\* The elements of a sequence.
Range(s) == {s[j] : j \in 1..Len(s)}

\* C19 (hover source precedence): a hover answered after an explainshell
\* response that is not an error is that response; a hover answered with no
\* endpoint configured, or after an error response, documents the word as a
\* builtin if it is one, else as a reserved word if it is one, else as an
\* executable on PATH if it is one, and is null otherwise.
C19_HoverPrecedence ==
    last.op = "hover" =>
        /\ last.status = "ok"
        /\ IF last.arg = <<TRUE, "success">>
           THEN last.result = [source |-> "explainshell", word |-> last.word]
           ELSE last.result =
                   IF last.word \in Range(BuiltinsLIST)
                   THEN [source |-> "builtin", word |-> last.word]
                   ELSE IF last.word \in Range(ReservedWordsLIST)
                   THEN [source |-> "reservedWord", word |-> last.word]
                   ELSE IF last.word \in Range(executables)
                   THEN [source |-> "executable", word |-> last.word]
                   ELSE [source |-> "null", word |-> Null]

\* After an error response of explainshell the hover of a word that is both a
\* builtin and an executable on PATH was answered from the builtins.
C19_Witness ==
    /\ last.op = "hover"
    /\ last.arg = <<TRUE, "error">>
    /\ last.word \in Range(BuiltinsLIST) \cap Range(executables)
    /\ last.result.source = "builtin"

\* C20 (hover snapshot under interleaving): a hover that suspends on the
\* explainshell request holds the word at the cursor in the store of that
\* moment; a step that changes the store changes no suspended hover; and the
\* answer of a resumed hover is for the word it holds, its fallback after an
\* error response being that of this word.
C20_HoverSnapshot ==
    [][/\ \A h \in pending' \ pending :
             /\ h.word = wordAtPoint(store, h.uri, h.pos)
             /\ store' = store
       /\ store' # store => pending' = pending
       /\ \A h \in pending \ pending' :
             /\ last'.op = "hover"
             /\ last'.word = h.word
             /\ last'.arg = <<TRUE, "error">> =>
                   last'.result =
                      IF h.word \in Range(BuiltinsLIST)
                      THEN [source |-> "builtin", word |-> h.word]
                      ELSE IF h.word \in Range(ReservedWordsLIST)
                      THEN [source |-> "reservedWord", word |-> h.word]
                      ELSE IF h.word \in Range(executables)
                      THEN [source |-> "executable", word |-> h.word]
                      ELSE [source |-> "null", word |-> Null]]_vars

\* A hover resumed after an error response was answered for a builtin that,
\* by then, no stored document contains at any position: the document it was
\* asked on changed while the hover was suspended.
C20_Witness ==
    /\ last.op = "hover"
    /\ last.arg = <<TRUE, "error">>
    /\ last.word \in Range(BuiltinsLIST)
    /\ last.result = [source |-> "builtin", word |-> last.word]
    /\ \A u \in URIS : \A pos \in Positions :
          wordAtPoint(store, u, pos) # last.word

====
